---- MODULE Spec2Model ----
(***************************************************************************)
(* Research assistant (src/main.py, src/tools.py): one interactive query   *)
(* is read, an agent is assembled and invoked in a worker thread, its raw  *)
(* output is parsed against ResearchResponse and the result is printed.    *)
(* The save_text_to_file tool appends blocks to research_output.txt, and   *)
(* export_to_json appends JSON documents to research_output.json.          *)
(*                                                                         *)
(* File content is modelled as a sequence of characters (all of them one   *)
(* byte in utf-8, but for the lone surrogate, which has no encoding), so   *)
(* formatting, appending and a write that is cut short are operations on   *)
(* sequences and not identities.                                           *)
(***************************************************************************)
EXTENDS Integers, Sequences, FiniteSets, TLC

VARIABLES
    pc,            \* position of the main coroutine (main / process_research_query)
    query,         \* the line read by input()
    wpc,           \* state of the agent run in the worker thread
    iterations,    \* AgentExecutor's iteration counter
    pending,       \* the tool call chosen by the model, while wpc = "CALL_TOOL"
    invoked,       \* what agent_executor.invoke produced (output, or the exception)
    raw_response,  \* local variable of process_research_query (Unbound before line 89 completes)
    result,        \* the mapping returned by process_research_query
    files,         \* content of the files, by name
    calls,         \* the save_to_txt / export_to_json calls made so far, with
                   \* their arguments, the clock, the fault and the return value
    log,           \* records handed to the logger, in order
    printed,       \* what main printed, in order
    escaped,       \* the exception that left main() ("CancelledError",
                   \* "KeyboardInterrupt"), or "none"
    stage,         \* where process_research_query failed ("interrupt": it was
                   \* left by a KeyboardInterrupt), or "none"
    reasoned,      \* number of model calls of the agent run
    assembled,     \* number of AgentExecutor objects built
    invocations,   \* number of agent_executor.invoke calls started
    processed      \* number of process_research_query calls

vars == <<pc, query, wpc, iterations, pending, invoked, raw_response, result,
          files, calls, log, printed, escaped, stage, reasoned,
          assembled, invocations, processed>>

mainVars   == <<pc, query, raw_response, result, printed, escaped, stage,
                assembled, invocations, processed>>
workerVars == <<wpc, iterations, pending, invoked, files, calls, reasoned>>

-----------------------------------------------------------------------------
(* Bounds and inputs *)

\* at most this many save_text_to_file calls are explored in one agent run
MaxSaves == 1

\* at most this many direct calls of save_to_txt and export_to_json are
\* explored (ToolSpec)
MaxCalls == 2

\* a write that fails has put at most this many bytes into the file, or all
\* bytes but the last one
MaxPartial == 3

\* (defect: the cap is one too high)
MaxIterationsOffByOne == 5 + 1

\* max_iterations of the AgentExecutor
MaxIterations == 5

\* the characters str.strip() removes: those for which str.isspace() holds
\* (a character outside the escapes of a string literal is named by its
\* Python escape: "\\x0b" is the vertical tab, "\\u3000" the ideographic space)
Whitespace ==
    {" ", "\t", "\n", "\\x0b", "\f", "\r", "\\x1c", "\\x1d", "\\x1e",
     "\\x1f", "\\x85", "\\xa0", "\\u1680", "\\u2000", "\\u2001", "\\u2002",
     "\\u2003", "\\u2004", "\\u2005", "\\u2006", "\\u2007", "\\u2008",
     "\\u2009", "\\u200a", "\\u2028", "\\u2029", "\\u202f", "\\u205f",
     "\\u3000"}

\* the lines the user may type
Queries ==
    { <<>>, <<" ">>, <<"\t", " ">>, <<"\f", "\\u3000", "\\xa0">>,
      <<"\\x0b", "\r", "\\x1c", "\\x85", "\\u2028">>,
      <<"\\xa0", "a", " ", "b", "\r">> }

\* readings of the wall clock
Timestamps == {"T1", "T2"}

\* text the model may hand to save_text_to_file; "\uDC80" is a lone
\* surrogate, which the utf-8 codec refuses to encode
Surrogate == "\\uDC80"
DataStrings ==
    { <<"t">>, <<"a", "\n">>, <<Surrogate>> }

\* text the agent's model may hand to save_text_to_file
ToolInputs == { <<"t">>, <<Surrogate>> }

\* the two files of src/tools.py
DefaultTxt  == "research_output.txt"
DefaultJson == "research_output.json"
Filenames   == {DefaultTxt, DefaultJson}

\* "--- Research Output ---"
Header ==
    <<"-", "-", "-", " ", "R", "e", "s", "e", "a", "r", "c", "h", " ", "O",
      "u", "t", "p", "u", "t", " ", "-", "-", "-">>

\* "Timestamp: "
TimestampLabel ==
    <<"T", "i", "m", "e", "s", "t", "a", "m", "p", ":", " ">>

\* what was in research_output.txt before the program started: nothing, or
\* one block of an earlier run
EarlierBlock ==
    Header \o <<"\n">> \o TimestampLabel
    \o <<"2", "0", "2", "6", "-", "1", "0", "-", "2", "9", " ", "1", "7", ":",
      "0", "0", ":", "0", "0">>
    \o <<"\n", "\n", "o", "\n", "\n">>

InitialFiles == { <<>>, EarlierBlock }

\* what export_to_json may be given: {"a": 1} and {"a": {1}} (a set,
\* which json cannot serialise); a dict is the sequence of its items
IntValue(digits) == [t |-> "int", digits |-> digits]
SetValue         == [t |-> "set"]
Item(k, v)       == [key |-> k, value |-> v]
ExportData ==
    { <<Item(<<"a">>, IntValue(<<"1">>))>>, <<Item(<<"a">>, SetValue)>> }

-----------------------------------------------------------------------------
(* str.strip() *)

RECURSIVE LStrip(_)
LStrip(s) ==
    IF s = <<>> THEN <<>>
    ELSE IF Head(s) \in Whitespace THEN LStrip(Tail(s)) ELSE s

RECURSIVE RStrip(_)
RStrip(s) ==
    IF s = <<>> THEN <<>>
    ELSE IF s[Len(s)] \in Whitespace THEN RStrip(SubSeq(s, 1, Len(s) - 1)) ELSE s

\* (defect: the line is tested without strip())
StripIdentity(s) == s

Strip(s) == RStrip(LStrip(s))

-----------------------------------------------------------------------------
(* datetime formatting *)

\* datetime.now().strftime("%Y-%m-%d %H:%M:%S")
Strftime(ts) ==
    IF ts = "T1"
    THEN <<"2", "0", "2", "6", "-", "1", "0", "-", "2", "9", " ", "1", "7", ":",
           "0", "0", ":", "0", "1">>
    ELSE <<"2", "0", "2", "6", "-", "1", "0", "-", "2", "9", " ", "1", "7", ":",
           "0", "0", ":", "0", "2">>

\* datetime.now().isoformat()
IsoFormat(ts) ==
    IF ts = "T1" THEN "2026-10-29T17:00:01.000001" ELSE "2026-10-29T17:00:02.000002"

-----------------------------------------------------------------------------
(* save_to_txt (src/tools.py) *)

\* f"--- Research Output ---\nTimestamp: {timestamp}\n\n{data}\n\n"
FormattedText(ts, data) ==
    Header \o <<"\n">> \o TimestampLabel \o Strftime(ts) \o <<"\n", "\n">>
    \o data \o <<"\n", "\n">>

\* the utf-8 codec encodes everything but lone surrogates
Encodable(text) == \A i \in 1..Len(text) : text[i] # Surrogate

\* The environment's part in one call: open() may fail ("open"), or the
\* write/flush/close may fail after some bytes reached the file ("write").
Faults == {"none", "open", "write"}

\* How the with-block ends: open() fails first; f.write encodes the text before
\* anything reaches the file; then the buffered bytes are flushed.
Outcome(text, fault) ==
    IF fault = "open" THEN "open"
    ELSE IF ~Encodable(text) THEN "encode"
    ELSE fault

\* number of bytes of text that reach the file
Wrote(text, fault, k) ==
    IF Outcome(text, fault) = "none" THEN Len(text)
    ELSE IF Outcome(text, fault) = "write" THEN k
    ELSE 0

\* (defect: mode "w", the file is emptied on open)
OpenTruncate(content) == <<>>

\* open(filename, "a"): the existing content stays, writes go to the end
OpenAppend(content) == content

ErrorText(outcome) ==
    IF outcome = "open" THEN "[Errno 30] Read-only file system"
    ELSE IF outcome = "encode" THEN "'utf-8' codec can't encode character"
    ELSE IF outcome = "type" THEN "Object of type set is not JSON serializable"
    ELSE "[Errno 28] No space left on device"

\* (defect: no except branch, the I/O error leaves the tool)
SaveReturnRaising(outcome, filename) ==
    IF outcome = "none"
    THEN [raised |-> FALSE, value |-> <<"Data successfully saved to ", filename>>,
          level |-> "INFO", msg |-> "Data saved to"]
    ELSE [raised |-> TRUE, value |-> <<"OSError", ErrorText(outcome)>>,
          level |-> "NONE", msg |-> "none"]

\* lines 28-32: the success string, or the except branch's error string
SaveReturn(outcome, filename) ==
    IF outcome = "none"
    THEN [raised |-> FALSE, value |-> <<"Data successfully saved to ", filename>>,
          level |-> "INFO", msg |-> "Data saved to"]
    ELSE [raised |-> FALSE, value |-> <<"Error saving to file: ", ErrorText(outcome)>>,
          level |-> "ERROR", msg |-> "Error saving to file"]

\* how many bytes a failing write may have put into the file: the write is
\* cut at any byte, also inside the header or the timestamp; the cuts
\* explored are the first ones and the last one
PartialWrites(text) ==
    {k \in 0..(Len(text) - 1) : k <= MaxPartial \/ k = Len(text) - 1}

\* a write can only fail if the text got as far as being written
FaultPossible(text, fault, k) ==
    /\ fault = "write" => Encodable(text)
    /\ fault # "write" => k = 0

\* one call save_to_txt(data, filename) on a file holding content
save_to_txt(content, data, filename, ts, fault, k) ==
    LET text == FormattedText(ts, data)
        kept == OpenAppend(content)
        n    == Wrote(text, fault, k)
    IN  [file |-> IF fault = "open" THEN content ELSE kept \o SubSeq(text, 1, n),
         ret  |-> SaveReturn(Outcome(text, fault), filename),
         call |-> [func |-> "save_to_txt", filename |-> filename,
                   data |-> data, ts |-> ts, fault |-> fault,
                   outcome |-> Outcome(text, fault), wrote |-> n,
                   ret |-> SaveReturn(Outcome(text, fault), filename).value]]

-----------------------------------------------------------------------------
(* export_to_json (src/tools.py) *)

\* json.dump(data, f, indent=2) writes the document chunk by chunk; a value
\* json cannot serialise raises TypeError after the chunks in front of it
\* were written
RECURSIVE DumpItems(_, _)
DumpItems(items, first) ==
    IF items = <<>> THEN [text |-> <<"\n", "}">>, ok |-> TRUE]
    ELSE LET it   == Head(items)
             sep  == IF first THEN <<"\n", " ", " ">> ELSE <<",", "\n", " ", " ">>
             key  == <<"\"">> \o it.key \o <<"\"", ":", " ">>
             rest == DumpItems(Tail(items), FALSE)
         IN  IF it.value.t # "int"
             THEN [text |-> sep \o key, ok |-> FALSE]
             ELSE [text |-> sep \o key \o it.value.digits \o rest.text,
                   ok |-> rest.ok]

JsonDump(data) ==
    IF data = <<>> THEN [text |-> <<"{", "}">>, ok |-> TRUE]
    ELSE [text |-> <<"{">> \o DumpItems(data, TRUE).text,
          ok |-> DumpItems(data, TRUE).ok]

\* what the with-block hands to the file: the document and f.write("\n"),
\* or the chunks written before json.dump raised
ExportText(data) ==
    IF JsonDump(data).ok THEN JsonDump(data).text \o <<"\n">> ELSE JsonDump(data).text

\* how the with-block ends: open() fails first; the buffered text is flushed
\* when the file is closed, also when json.dump has raised
ExportOutcome(data, fault) ==
    IF fault # "none" THEN fault
    ELSE IF ~JsonDump(data).ok THEN "type"
    ELSE "none"

\* lines 66-69: the success string, or the except branch's error string
ExportReturn(outcome, filename) ==
    IF outcome = "none"
    THEN [value |-> <<"Data successfully exported to ", filename>>,
          level |-> "INFO", msg |-> "Data exported to"]
    ELSE [value |-> <<"Error exporting to JSON: ", ErrorText(outcome)>>,
          level |-> "ERROR", msg |-> "Error exporting to JSON"]

\* one call export_to_json(data, filename) on a file holding content
export_to_json(content, data, filename, fault, k) ==
    LET text == ExportText(data)
        out  == ExportOutcome(data, fault)
        n    == IF out = "open" THEN 0 ELSE IF out = "write" THEN k ELSE Len(text)
    IN  [file |-> IF out = "open" THEN content
                  ELSE OpenAppend(content) \o SubSeq(text, 1, n),
         ret  |-> ExportReturn(out, filename),
         call |-> [func |-> "export_to_json", filename |-> filename,
                   data |-> data, fault |-> fault, outcome |-> out,
                   wrote |-> n, ret |-> ExportReturn(out, filename).value]]

-----------------------------------------------------------------------------
(* ResearchResponse and PydanticOutputParser.parse (src/main.py) *)

Fields   == {"topic", "summary", "sources", "tools_used", "timestamp"}
FieldType ==
    [f \in Fields |-> IF f \in {"sources", "tools_used"} THEN "list" ELSE "str"]

\* (defect: timestamp without its default)
RequiredAll == Fields

\* timestamp has a default_factory, the other four fields are required
Required == {"topic", "summary", "sources", "tools_used"}

Str(s)   == [t |-> "str", s |-> s]
List(l)  == [t |-> "list", l |-> l]
Null     == [t |-> "null"]

\* model_validate of a JSON object: a field that is present must have the
\* schema's type, a required field must be present, unknown keys are ignored,
\* and an absent timestamp is replaced by datetime.now().isoformat()
Validates(obj) ==
    /\ \A f \in Required : f \in DOMAIN obj
    /\ \A f \in Fields \cap DOMAIN obj : obj[f].t = FieldType[f]

Construct(obj, now) ==
    [f \in Fields |->
        IF f \in DOMAIN obj THEN obj[f] ELSE Str(IsoFormat(now))]

NotJson      == [json |-> FALSE]
JsonText(o)  == [json |-> TRUE, obj |-> o]

\* parser.parse(text): the text must be JSON and validate
Parse(text, now) ==
    IF ~text.json THEN [ok |-> FALSE, error |-> "Invalid json output"]
    ELSE IF ~Validates(text.obj)
         THEN [ok |-> FALSE, error |-> "Failed to parse ResearchResponse"]
         ELSE [ok |-> TRUE, value |-> Construct(text.obj, now)]

\* raw_response.get("output")[0]["text"]
StrOutput(empty) == [shape |-> "str", empty |-> empty]
ListOutput(segs) == [shape |-> "list", segs |-> segs]
TextSegment(t)   == [type |-> "text", text |-> t]
ToolUseSegment   == [type |-> "tool_use"]

Extract(output) ==
    IF output.shape = "str"
    THEN IF output.empty
         THEN [ok |-> FALSE, error |-> "IndexError: string index out of range"]
         ELSE [ok |-> FALSE, error |-> "TypeError: string indices must be integers"]
    ELSE IF output.segs = <<>>
         THEN [ok |-> FALSE, error |-> "IndexError: list index out of range"]
         ELSE IF "text" \notin DOMAIN output.segs[1]
              THEN [ok |-> FALSE, error |-> "KeyError: 'text'"]
              ELSE [ok |-> TRUE, text |-> output.segs[1].text]

-----------------------------------------------------------------------------
(* What the language model may answer *)

Good ==
    [topic      |-> Str("Eiffel Tower"),
     summary    |-> Str("A wrought-iron tower in Paris"),
     sources    |-> List(<<"https://example.org/eiffel">>),
     tools_used |-> List(<<"web_search">>),
     timestamp  |-> Str("2026-10-29T16:59:59"),
     extra      |-> Str("ignored")]

Other ==
    [topic      |-> Str("Rust"),
     summary    |-> Str("A systems language"),
     sources    |-> List(<<>>),
     tools_used |-> List(<<>>),
     timestamp  |-> Str("yesterday")]

\* the JSON object with the keys S, the keys in bad holding null
Obj(S, bad) == [f \in S |-> IF f \in bad THEN Null ELSE Good[f]]

ModelObjects ==
    {Obj(Fields, {}), Obj(Fields \cup {"extra"}, {}), Obj(Fields, {"topic"})}
    \cup {Obj(Fields \ {f}, {}) : f \in Fields}

ModelTexts == {NotJson} \cup {JsonText(o) : o \in ModelObjects}

FinalOutputs ==
    {ListOutput(<<TextSegment(t)>>) : t \in ModelTexts}
    \cup {ListOutput(<<>>),
          ListOutput(<<ToolUseSegment, TextSegment(JsonText(Other))>>),
          StrOutput(FALSE), StrOutput(TRUE)}

\* "Agent stopped due to max iterations.": a plain string
StoppedOutput == StrOutput(FALSE)

LookupTools == {"web_search", "wikipedia"}
SaveTool    == "save_text_to_file"

-----------------------------------------------------------------------------
(* State *)

Unread   == <<"<no line read>">>
Unbound  == [bound |-> FALSE]
Bound(o) == [bound |-> TRUE, output |-> o]
NoResult == [unset |-> Null]
NoTool   == [tool |-> "none"]
NotInvoked == [kind |-> "none"]

Init ==
    /\ pc = "input"
    /\ query = Unread
    /\ wpc = "NOT_STARTED"
    /\ iterations = 0
    /\ pending = NoTool
    /\ invoked = NotInvoked
    /\ raw_response = Unbound
    /\ result = NoResult
    /\ \E f0 \in InitialFiles : files = [fn \in Filenames |->
                                            IF fn = DefaultTxt THEN f0 ELSE <<>>]
    /\ calls = <<>>
    /\ log = <<>>
    /\ printed = <<>>
    /\ escaped = "none"
    /\ stage = "none"
    /\ reasoned = 0
    /\ assembled = 0
    /\ invocations = 0
    /\ processed = 0

Rec(thread, level, msg) == <<thread, level, msg>>
Line(label, value)      == [label |-> label, value |-> value]

-----------------------------------------------------------------------------
(* main, lines 107-137 *)

\* An except clause of main logs a record and prints a line. A
\* KeyboardInterrupt raised while the clause runs is not caught by the sibling
\* clauses of the same try statement: it leaves main() after none, one or both
\* of the two effects.
HandlerOutcomes(rec, line) ==
    { [recs |-> <<rec>>, lines |-> <<line>>, escaped |-> "none"],
      [recs |-> <<>>,    lines |-> <<>>,     escaped |-> "KeyboardInterrupt"],
      [recs |-> <<rec>>, lines |-> <<>>,     escaped |-> "KeyboardInterrupt"],
      [recs |-> <<rec>>, lines |-> <<line>>, escaped |-> "KeyboardInterrupt"] }

\* the record and the line of main's except KeyboardInterrupt branch
TerminatedRecord == Rec("main", "INFO", "Program terminated by user")
TerminatedLine   == Line("Program terminated.", Null)

\* lines 132-134
ExceptKeyboardInterrupt == HandlerOutcomes(TerminatedRecord, TerminatedLine)

\* lines 135-137
ExceptException(msg) ==
    HandlerOutcomes(Rec("main", "ERROR", "Unexpected error in main"),
                    Line("An unexpected error occurred: ", Str(msg)))

\* line 110-116: input(), the strip() test, and the call of process_research_query
ReadInput ==
    /\ pc = "input"
    /\ \E q \in Queries :
         /\ query' = q
         /\ IF Strip(q) = <<>>
            THEN /\ log' = Append(log, Rec("main", "WARNING", "Empty query provided"))
                 /\ printed' = Append(printed,
                        Line("Please provide a valid research query.", Null))
                 /\ pc' = "done"
                 /\ processed' = processed
            ELSE /\ pc' = "assemble"
                 /\ processed' = processed + 1
                 /\ UNCHANGED <<log, printed>>
    /\ UNCHANGED <<workerVars, raw_response, result, escaped, stage, assembled,
                   invocations>>

\* Ctrl-C while input() blocks: KeyboardInterrupt is raised inside main's try
InputInterrupted ==
    /\ pc = "input"
    /\ \E h \in ExceptKeyboardInterrupt :
         /\ log' = log \o h.recs
         /\ printed' = printed \o h.lines
         /\ escaped' = h.escaped
    /\ pc' = "done"
    /\ UNCHANGED <<workerVars, query, raw_response, result, stage,
                   assembled, invocations, processed>>

\* KeyboardInterrupt raised after the line was read (lines 111-116): before
\* process_research_query is called, or in the blank branch before the
\* warning, before the print, or after it
InterruptedAfterRead ==
    /\ pc = "input"
    /\ \E q \in Queries, done \in 0..2, h \in ExceptKeyboardInterrupt :
         /\ Strip(q) # <<>> => done = 0
         /\ query' = q
         /\ log' = log
               \o (IF done >= 1
                   THEN <<Rec("main", "WARNING", "Empty query provided")>> ELSE <<>>)
               \o h.recs
         /\ printed' = printed
               \o (IF done = 2
                   THEN <<Line("Please provide a valid research query.", Null)>>
                   ELSE <<>>)
               \o h.lines
         /\ escaped' = h.escaped
    /\ pc' = "done"
    /\ UNCHANGED <<workerVars, raw_response, result, stage, assembled,
                   invocations, processed>>

\* input() raises EOFError (stdin closed): the except Exception branch
InputFails ==
    /\ pc = "input"
    /\ \E h \in ExceptException("EOF when reading a line") :
         /\ log' = log \o h.recs
         /\ printed' = printed \o h.lines
         /\ escaped' = h.escaped
    /\ pc' = "done"
    /\ UNCHANGED <<workerVars, query, raw_response, result, stage,
                   assembled, invocations, processed>>

-----------------------------------------------------------------------------
(* process_research_query, lines 83-105 *)

\* (defect: the raw response is dropped from the error mapping)
ProcessExceptNoRaw(msg, raw) ==
    [error |-> Str(msg), raw_response |-> Null]

\* (defect: the exception is not turned into a mapping)
ProcessExceptPropagates(msg, raw) == NoResult

\* lines 100-105: the error mapping built by the except branch
ProcessExcept(msg, raw) ==
    [error |-> Str(msg), raw_response |-> IF raw.bound THEN raw ELSE Null]

\* (defect: the failed query is tried again)
AfterFailureRetry == "assemble"

\* the except branch returns to main: there is no loop around lines 86-98
AfterFailure == "print"

\* lines 86 and 36-81: create_research_agent raises; it logs and re-raises,
\* and the except branch of process_research_query answers
CreateAgentFails ==
    /\ pc = "assemble"
    /\ assembled' = assembled
    /\ log' = log \o <<Rec("main", "ERROR", "Error creating agent"),
                       Rec("main", "ERROR", "Error processing query")>>
    /\ result' = ProcessExcept("assembly failed", raw_response)
    /\ stage' = "assembly"
    /\ pc' = AfterFailure
    /\ UNCHANGED <<workerVars, query, raw_response, printed, escaped, invocations,
                   processed>>

\* lines 86-92: the agent is built, and agent_executor.invoke is handed to a
\* worker thread, which starts to run it; the coroutine has not suspended yet
CreateAgentAndInvoke ==
    /\ pc = "assemble"
    /\ assembled' = assembled + 1
    /\ log' = Append(log, Rec("main", "INFO", "Processing query"))
    /\ invocations' = invocations + 1
    /\ wpc' = "START"
    /\ pc' = "submitted"
    /\ UNCHANGED <<query, raw_response, result, printed, escaped, stage, processed,
                   iterations, pending, invoked, files, calls, reasoned>>

\* line 89: asyncio.to_thread returns the future; the coroutine suspends on it
AwaitSuspends ==
    /\ pc = "submitted"
    /\ pc' = "await"
    /\ UNCHANGED <<workerVars, query, raw_response, result, log, printed, escaped,
                   stage, assembled, invocations, processed>>

\* KeyboardInterrupt raised in the synchronous code of lines 86-87 (the
\* agent is being built, or was built, or the query was logged): it is not an
\* Exception, so it passes the except clauses of create_research_agent and of
\* process_research_query, and main's except KeyboardInterrupt answers
InterruptedAssembling ==
    /\ pc = "assemble"
    /\ \E built \in BOOLEAN, h \in ExceptKeyboardInterrupt, recs \in
            { <<>>, <<Rec("main", "INFO", "Processing query")>>,
              <<Rec("main", "ERROR", "Error creating agent")>>,
              <<Rec("main", "ERROR", "Error creating agent"),
                Rec("main", "ERROR", "Error processing query")>> } :
         /\ recs = <<Rec("main", "INFO", "Processing query")>> => built
         /\ (recs # <<>> /\ recs[1] = Rec("main", "ERROR", "Error creating agent"))
               => ~built
         /\ assembled' = assembled + (IF built THEN 1 ELSE 0)
         /\ log' = log \o recs \o h.recs
         /\ printed' = printed \o h.lines
         /\ escaped' = h.escaped
    /\ stage' = "interrupt"
    /\ pc' = "done"
    /\ UNCHANGED <<workerVars, query, raw_response, result, invocations,
                   processed>>

\* KeyboardInterrupt raised in the synchronous code of lines 89-92 after the
\* thread was started and before the coroutine suspends: main's except
\* KeyboardInterrupt answers while agent_executor.invoke runs on in its thread
InterruptedInvoking ==
    /\ pc = "submitted"
    /\ \E h \in ExceptKeyboardInterrupt :
         /\ log' = log \o h.recs
         /\ printed' = printed \o h.lines
         /\ escaped' = h.escaped
    /\ stage' = "interrupt"
    /\ pc' = "done"
    /\ UNCHANGED <<workerVars, query, raw_response, result, assembled,
                   invocations, processed>>

InvokeReturned(w) == w \in {"FINAL_ANSWER", "ITERATION_LIMIT_REACHED"}

\* the awaited call ended with an exception, which the await re-raises
InvokeRaised(w) == w = "RAISED"

\* line 89: the await resumes with the value invoke returned
AwaitReturns ==
    /\ pc = "await"
    /\ InvokeReturned(wpc)
    /\ raw_response' = Bound(invoked.output)
    /\ pc' = "parse"
    /\ UNCHANGED <<workerVars, query, result, log, printed, escaped, stage,
                   assembled, invocations, processed>>

\* line 89: the await re-raises what invoke raised; the except branch answers
AwaitRaises ==
    /\ pc = "await"
    /\ InvokeRaised(wpc)
    /\ log' = Append(log, Rec("main", "ERROR", "Error processing query"))
    /\ result' = ProcessExcept("invocation failed", raw_response)
    /\ stage' = "invocation"
    /\ pc' = AfterFailure
    /\ UNCHANGED <<workerVars, query, raw_response, printed, escaped, assembled,
                   invocations, processed>>

\* Ctrl-C while the coroutine is suspended at line 89: asyncio cancels the main
\* task, CancelledError (a BaseException) is thrown at the await and passes
\* every except clause of process_research_query and of main; the worker
\* thread keeps running
AwaitCancelled ==
    /\ pc = "await"
    /\ escaped' = "CancelledError"
    /\ pc' = "done"
    /\ UNCHANGED <<workerVars, query, raw_response, result, log, printed, stage,
                   assembled, invocations, processed>>

\* the record lines 94-105 log for the value invoke returned
ParseRecord(raw) ==
    IF Extract(raw.output).ok /\ Parse(Extract(raw.output).text, "T1").ok
    THEN Rec("main", "INFO", "Successfully processed query")
    ELSE Rec("main", "ERROR", "Error processing query")

\* KeyboardInterrupt raised in the synchronous code of lines 94-105, before
\* or after the log record: process_research_query returns nothing. The code
\* runs lines 94-98 and, on an exception, 100-105 after invoke returned, and
\* lines 100-105 after the await at line 89 re-raised what invoke raised
InterruptedParsing ==
    /\ \/ pc = "parse"
       \/ pc = "await" /\ InvokeRaised(wpc)
    /\ \E logged \in BOOLEAN, h \in ExceptKeyboardInterrupt :
         /\ log' = log \o (IF ~logged THEN <<>>
                           ELSE IF pc = "parse" THEN <<ParseRecord(raw_response)>>
                           ELSE <<Rec("main", "ERROR", "Error processing query")>>)
                       \o h.recs
         /\ printed' = printed \o h.lines
         /\ escaped' = h.escaped
    /\ stage' = "interrupt"
    /\ pc' = "done"
    /\ UNCHANGED <<workerVars, query, raw_response, result, assembled,
                   invocations, processed>>

\* lines 94-98: extraction of the first text segment, parse, .dict()
ParseResponse ==
    /\ pc = "parse"
    /\ LET e == Extract(raw_response.output) IN
         IF ~e.ok
         THEN /\ result' = ProcessExcept(e.error, raw_response)
              /\ stage' = "extraction"
              /\ log' = Append(log, Rec("main", "ERROR", "Error processing query"))
              /\ pc' = AfterFailure
         ELSE \E now \in Timestamps :
                LET p == Parse(e.text, now) IN
                  IF ~p.ok
                  THEN /\ result' = ProcessExcept(p.error, raw_response)
                       /\ stage' = "parse"
                       /\ log' = Append(log, Rec("main", "ERROR", "Error processing query"))
                       /\ pc' = AfterFailure
                  ELSE /\ result' = p.value
                       /\ stage' = "none"
                       /\ log' = Append(log, Rec("main", "INFO", "Successfully processed query"))
                       /\ pc' = "print"
    /\ UNCHANGED <<workerVars, query, raw_response, printed, escaped, assembled,
                   invocations, processed>>

-----------------------------------------------------------------------------
(* main, lines 118-130: the two print branches *)

\* truth value of result['raw_response']: None is false, a non-empty dict is true
Truthy(v) == "bound" \in DOMAIN v

RECURSIVE SourceLines(_)
SourceLines(l) ==
    IF l = <<>> THEN <<>>
    ELSE <<Line("- ", Str(Head(l)))>> \o SourceLines(Tail(l))

\* ', '.join(l)
RECURSIVE Join(_)
Join(l) ==
    IF l = <<>> THEN <<>>
    ELSE IF Len(l) = 1 THEN l
    ELSE <<Head(l), ", ">> \o Join(Tail(l))

Joined(l) == [t |-> "text", parts |-> Join(l)]

\* lines 118-121: the lines the error branch prints, and the key whose
\* lookup raised KeyError ("none": no lookup failed)
ErrorLines(r) ==
    IF "raw_response" \notin DOMAIN r
    THEN [lines |-> <<Line("Error: ", r["error"])>>, missing |-> "raw_response"]
    ELSE [lines |-> <<Line("Error: ", r["error"])>>
                    \o (IF Truthy(r["raw_response"])
                        THEN <<Line("Raw Response: ", r["raw_response"])>> ELSE <<>>),
          missing |-> "none"]

\* the keys the results branch looks up, in the order of lines 124-130
ResultKeys == <<"topic", "summary", "sources", "tools_used", "timestamp">>

\* what is printed before the key is looked up
BeforeLookup(f) == IF f = "sources" THEN <<Line("Sources:", Null)>> ELSE <<>>

\* what is printed with the value of the key
WithValue(r, f) ==
    IF f = "topic" THEN <<Line("Topic: ", r[f])>>
    ELSE IF f = "summary" THEN <<Line("Summary: ", r[f])>>
    ELSE IF f = "sources" THEN SourceLines(r[f].l)
    ELSE IF f = "tools_used" THEN <<Line("Tools Used: ", Joined(r[f].l))>>
    ELSE <<Line("Timestamp: ", r[f])>>

\* the prints stop at the first key that is missing
RECURSIVE FieldLines(_, _)
FieldLines(r, keys) ==
    IF keys = <<>> THEN [lines |-> <<>>, missing |-> "none"]
    ELSE IF Head(keys) \notin DOMAIN r
         THEN [lines |-> BeforeLookup(Head(keys)), missing |-> Head(keys)]
         ELSE [lines |-> BeforeLookup(Head(keys)) \o WithValue(r, Head(keys))
                         \o FieldLines(r, Tail(keys)).lines,
               missing |-> FieldLines(r, Tail(keys)).missing]

\* lines 122-130
ResultLines(r) ==
    [lines |-> <<Line("Research Results:", Null)>> \o FieldLines(r, ResultKeys).lines,
     missing |-> FieldLines(r, ResultKeys).missing]

\* lines 118-130: the branch is chosen by the 'error' key
PrintedLines(r) == IF "error" \in DOMAIN r THEN ErrorLines(r) ELSE ResultLines(r)

\* str(KeyError(key))
KeyErrorStr(key) ==
    IF key = "topic" THEN "'topic'"
    ELSE IF key = "summary" THEN "'summary'"
    ELSE IF key = "sources" THEN "'sources'"
    ELSE IF key = "tools_used" THEN "'tools_used'"
    ELSE IF key = "timestamp" THEN "'timestamp'"
    ELSE "'raw_response'"

\* a lookup of a missing key raises KeyError after the lines in front of it
\* were printed; main's except Exception branch logs and prints it
PrintResult ==
    /\ pc = "print"
    /\ LET p == PrintedLines(result) IN
         IF p.missing # "none"
         THEN \E h \in ExceptException(KeyErrorStr(p.missing)) :
                /\ log' = log \o h.recs
                /\ printed' = printed \o p.lines \o h.lines
                /\ escaped' = h.escaped
         ELSE /\ printed' = printed \o p.lines
              /\ UNCHANGED <<log, escaped>>
    /\ pc' = "done"
    /\ UNCHANGED <<workerVars, query, raw_response, result, stage,
                   assembled, invocations, processed>>

\* KeyboardInterrupt raised between the prints of lines 118-130: the lines
\* printed so far stay, main's except KeyboardInterrupt answers
InterruptedPrinting ==
    /\ pc = "print"
    /\ \E j \in 0..Len(PrintedLines(result).lines), h \in ExceptKeyboardInterrupt :
         /\ printed' = printed \o SubSeq(PrintedLines(result).lines, 1, j)
                               \o h.lines
         /\ log' = log \o h.recs
         /\ escaped' = h.escaped
    /\ pc' = "done"
    /\ UNCHANGED <<workerVars, query, raw_response, result, stage,
                   assembled, invocations, processed>>

-----------------------------------------------------------------------------
(* One run of the AgentExecutor in the worker thread: max_iterations = 5,    *)
(* handle_parsing_errors = True, tools = [search_tool, wiki_tool, save_tool] *)

Saves == Len(calls)

\* invoke() enters the loop
BeginRun ==
    /\ wpc = "START"
    /\ wpc' = "LLM_REASONS"
    /\ iterations' = 0
    /\ UNCHANGED <<mainVars, pending, invoked, files, calls, log, reasoned>>

\* the model gives its final answer
LlmFinishes ==
    /\ wpc = "LLM_REASONS"
    /\ iterations < MaxIterations
    /\ \E o \in FinalOutputs : invoked' = [kind |-> "return", output |-> o]
    /\ wpc' = "FINAL_ANSWER"
    /\ reasoned' = reasoned + 1
    /\ UNCHANGED <<mainVars, iterations, pending, files, calls, log>>

\* the model asks for a tool call
LlmCallsTool ==
    /\ wpc = "LLM_REASONS"
    /\ iterations < MaxIterations
    /\ \/ \E d \in ToolInputs :
            /\ Saves < MaxSaves
            /\ pending' = [tool |-> SaveTool, input |-> d]
       \/ \E t \in LookupTools : pending' = [tool |-> t]
    /\ wpc' = "CALL_TOOL"
    /\ reasoned' = reasoned + 1
    /\ UNCHANGED <<mainVars, iterations, invoked, files, calls, log>>

\* a malformed intermediate output: with handle_parsing_errors the error is
\* fed back to the model as an observation, and the iteration counts
LlmMalformed ==
    /\ wpc = "LLM_REASONS"
    /\ iterations < MaxIterations
    /\ iterations' = iterations + 1
    /\ reasoned' = reasoned + 1
    /\ UNCHANGED <<mainVars, wpc, pending, invoked, files, calls, log>>

\* the model API raises; nothing in the loop catches it
LlmRaises ==
    /\ wpc = "LLM_REASONS"
    /\ iterations < MaxIterations
    /\ invoked' = [kind |-> "raise", exc |-> "model API error"]
    /\ wpc' = "RAISED"
    /\ reasoned' = reasoned + 1
    /\ UNCHANGED <<mainVars, iterations, pending, files, calls, log>>

\* the loop ends at the cap: the stopped response is returned
IterationLimit ==
    /\ wpc = "LLM_REASONS"
    /\ iterations >= MaxIterations
    /\ invoked' = [kind |-> "return", output |-> StoppedOutput]
    /\ wpc' = "ITERATION_LIMIT_REACHED"
    /\ UNCHANGED <<mainVars, iterations, pending, files, calls, log, reasoned>>

\* save_tool: Tool(func = save_to_txt), src/tools.py lines 19-40; the tool
\* passes the model's text only, so the file is the default one. Lines 22-26:
\* the worker thread formats the block and opens, writes and closes the
\* file; the call has not returned and nothing is logged yet, and the main
\* thread can run before the next step
RunSaveTool ==
    /\ wpc = "CALL_TOOL"
    /\ pending.tool = SaveTool
    /\ "call" \notin DOMAIN pending
    /\ \E ts \in Timestamps, fault \in Faults :
         \E k \in PartialWrites(FormattedText(ts, pending.input)) :
           LET r == save_to_txt(files[DefaultTxt], pending.input, DefaultTxt,
                                ts, fault, k) IN
             /\ FaultPossible(FormattedText(ts, pending.input), fault, k)
             /\ files' = [files EXCEPT ![DefaultTxt] = r.file]
             /\ pending' = [tool |-> SaveTool, input |-> pending.input,
                            call |-> r.call, ret |-> r.ret]
    /\ UNCHANGED <<mainVars, wpc, iterations, invoked, calls, log, reasoned>>

\* lines 28-32: after the file was closed save_to_txt logs the outcome and
\* returns its string to the agent, whose run goes on with the next
\* iteration
SaveToolReturns ==
    /\ wpc = "CALL_TOOL"
    /\ pending.tool = SaveTool
    /\ "call" \in DOMAIN pending
    /\ calls' = Append(calls, pending.call)
    /\ IF pending.ret.raised
       THEN /\ invoked' = [kind |-> "raise", exc |-> pending.ret.value[1]]
            /\ wpc' = "RAISED"
            /\ UNCHANGED <<iterations, log>>
       ELSE /\ log' = Append(log, Rec("worker", pending.ret.level,
                                      pending.ret.msg))
            /\ iterations' = iterations + 1
            /\ wpc' = "LLM_REASONS"
            /\ UNCHANGED invoked
    /\ pending' = NoTool
    /\ UNCHANGED <<mainVars, files, reasoned>>

\* search_tool / wiki_tool: no local error handling, a backend failure
\* propagates out of invoke
RunLookupTool ==
    /\ wpc = "CALL_TOOL"
    /\ pending.tool \in LookupTools
    /\ \/ /\ iterations' = iterations + 1
          /\ wpc' = "LLM_REASONS"
          /\ UNCHANGED invoked
       \/ /\ invoked' = [kind |-> "raise", exc |-> "backend error"]
          /\ wpc' = "RAISED"
          /\ UNCHANGED iterations
    /\ pending' = NoTool
    /\ UNCHANGED <<mainVars, files, calls, log, reasoned>>

\* save_to_txt called directly, as Tool.func is (one argument: the file is
\* the default one)
CallSaveToTxt ==
    /\ Len(calls) < MaxCalls
    /\ \E d \in DataStrings, fn \in {DefaultTxt}, ts \in Timestamps, fault \in Faults :
         \E k \in PartialWrites(FormattedText(ts, d)) :
           LET r == save_to_txt(files[fn], d, fn, ts, fault, k) IN
             /\ FaultPossible(FormattedText(ts, d), fault, k)
             /\ ~r.ret.raised
             /\ files' = [files EXCEPT ![fn] = r.file]
             /\ calls' = Append(calls, r.call)
             /\ log' = Append(log, Rec("worker", r.ret.level, r.ret.msg))
    /\ UNCHANGED <<mainVars, wpc, iterations, pending, invoked, reasoned>>

\* export_to_json called directly, as export_tool's func is (main.py does not
\* give export_tool to the agent), with any of the file names
CallExportToJson ==
    /\ Len(calls) < MaxCalls
    /\ \E d \in ExportData, fn \in Filenames, fault \in Faults :
         \E k \in PartialWrites(ExportText(d)) :
           LET r == export_to_json(files[fn], d, fn, fault, k) IN
             /\ fault # "write" => k = 0
             /\ files' = [files EXCEPT ![fn] = r.file]
             /\ calls' = Append(calls, r.call)
             /\ log' = Append(log, Rec("worker", r.ret.level, r.ret.msg))
    /\ UNCHANGED <<mainVars, wpc, iterations, pending, invoked, reasoned>>

WorkerNext ==
    \/ BeginRun
    \/ LlmFinishes
    \/ LlmCallsTool
    \/ LlmMalformed
    \/ LlmRaises
    \/ IterationLimit
    \/ RunSaveTool
    \/ SaveToolReturns
    \/ RunLookupTool

MainNext ==
    \/ ReadInput
    \/ InputInterrupted
    \/ InterruptedAfterRead
    \/ InputFails
    \/ CreateAgentFails
    \/ CreateAgentAndInvoke
    \/ InterruptedAssembling
    \/ AwaitSuspends
    \/ InterruptedInvoking
    \/ AwaitReturns
    \/ AwaitRaises
    \/ AwaitCancelled
    \/ InterruptedParsing
    \/ ParseResponse
    \/ PrintResult
    \/ InterruptedPrinting

Next == MainNext \/ WorkerNext

Spec == Init /\ [][Next]_vars

\* the functions of src/tools.py on their own: any sequence of calls
ToolNext == CallSaveToTxt \/ CallExportToJson

ToolSpec == Init /\ [][ToolNext]_vars

\* one agent run on its own: a query is read, the agent is invoked, and the
\* caller waits
AgentRunNext ==
    \/ ReadInput
    \/ CreateAgentAndInvoke
    \/ AwaitSuspends
    \/ WorkerNext

\* every model call and every tool call comes back: the worker thread is
\* not stopped while it has a step to take
AgentRunSpec == Init /\ [][AgentRunNext]_vars /\ WF_vars(WorkerNext)

-----------------------------------------------------------------------------
(* Properties *)

\* a line is blank when all its characters are whitespace
IsBlank(q) == \A i \in 1..Len(q) : q[i] \in Whitespace

MainRecords == SelectSeq(log, LAMBDA r : r[1] = "main")

Labels == {printed[i].label : i \in 1..Len(printed)}

\* the user interrupted main (the except KeyboardInterrupt clause was
\* entered, or the interrupt left main)
Interrupted ==
    \/ escaped # "none"
    \/ \E i \in 1..Len(log) : log[i] = Rec("main", "INFO", "Program terminated by user")

\* C1: a line that is empty or holds only whitespace never reaches
\* process_research_query: no agent is assembled, no invocation starts, and
\* main (when the user does not interrupt it) logs the warning, prints the
\* 'provide a valid research query' message and returns.
C1_BlankQueryRejected ==
    (query # Unread /\ IsBlank(query)) =>
        /\ processed = 0
        /\ assembled = 0
        /\ invocations = 0
        /\ wpc = "NOT_STARTED"
        /\ pc = "done"
        /\ result = NoResult
        /\ ~Interrupted =>
              /\ log = <<Rec("main", "WARNING", "Empty query provided")>>
              /\ printed = <<Line("Please provide a valid research query.", Null)>>

C1_Witness ==
    /\ query = <<"\f", "\\u3000", "\\xa0">>
    /\ ~Interrupted
    /\ pc = "done"
    /\ Len(printed) = 1

\* what process_research_query was doing has failed, as seen from outside
\* the function: the agent could not be built, invoke raised, or the value
\* invoke returned has no first text segment or does not parse
AssemblyFailed ==
    \E i \in 1..Len(log) : log[i] = Rec("main", "ERROR", "Error creating agent")

InvocationFailed == invoked.kind = "raise"

ExtractionFailed ==
    /\ invoked.kind = "return"
    /\ ~Extract(invoked.output).ok

ParseFailed ==
    /\ invoked.kind = "return"
    /\ Extract(invoked.output).ok
    /\ \A now \in Timestamps : ~Parse(Extract(invoked.output).text, now).ok

\* process_research_query has come back to main (main was not cancelled, and
\* no KeyboardInterrupt went through the function)
Returned ==
    /\ pc \in {"print", "done"}
    /\ processed = 1
    /\ escaped = "none"
    /\ stage # "interrupt"

\* C2: process_research_query never lets a failure through: when assembly,
\* the invocation, the extraction of the first text segment or the schema
\* parse fails, the call returns a mapping with an 'error' key.
C2_FailureIsReturned ==
    /\ (Returned /\ (AssemblyFailed \/ InvocationFailed \/ ExtractionFailed \/ ParseFailed))
          => "error" \in DOMAIN result
    /\ (pc = "await" /\ InvocationFailed) => ENABLED AwaitRaises

C2_Witness ==
    /\ pc = "done"
    /\ invoked = [kind |-> "return",
                  output |-> ListOutput(<<TextSegment(JsonText(Obj(Fields \ {"summary"}, {})))>>)]
    /\ "error" \in DOMAIN result

\* C7 (as claimed): no exception leaves main; an interrupt, also one that
\* arrives while the agent invocation is awaited, ends with the
\* 'Program terminated.' message and any other exception with the
\* 'An unexpected error occurred' message.
C7_NothingEscapesMain ==
    pc = "done" =>
        /\ escaped = "none"
        /\ printed # <<>>

\* C8: no retry: at most one agent is assembled and at most one invocation
\* is started in a program run, and once assembly, invocation, extraction or
\* parse has failed, no further assembly or invocation happens.
C8_NoRetry ==
    /\ [](assembled <= 1 /\ invocations <= 1 /\ processed <= 1)
    /\ [][(stage # "none" \/ AssemblyFailed \/ InvocationFailed)
             => (assembled' = assembled /\ invocations' = invocations
                 /\ processed' = processed /\ wpc' # "START")]_vars

C8_Witness ==
    /\ pc = "done"
    /\ stage = "invocation"
    /\ assembled = 1
    /\ invocations = 1

\* C10: a mapping returned by process_research_query is either a success
\* mapping (the five schema keys, no 'error') or an error mapping (exactly
\* 'error' and 'raw_response'); in an error mapping raw_response is the raw
\* agent output exactly when the invocation completed, and None when assembly
\* or the invocation failed; main prints one branch only and its lookup of
\* result['raw_response'] does not fail.
C10_ResultShapes ==
    Returned =>
        /\ \/ DOMAIN result = Fields
           \/ DOMAIN result = {"error", "raw_response"}
        /\ "error" \in DOMAIN result =>
              result["raw_response"] =
                 (IF invoked.kind = "return" THEN Bound(invoked.output) ELSE Null)
        /\ pc = "done" =>
              /\ "An unexpected error occurred: " \notin Labels
              /\ "Error: " \in Labels => "error" \in DOMAIN result
              /\ "Research Results:" \in Labels => "error" \notin DOMAIN result
              /\ "Raw Response: " \in Labels =>
                    ("error" \in DOMAIN result /\ invoked.kind = "return")
              /\ "Program terminated." \notin Labels =>
                    /\ ("Error: " \in Labels) = ("error" \in DOMAIN result)
                    /\ ("Research Results:" \in Labels) = ("error" \notin DOMAIN result)
                    /\ ("Raw Response: " \in Labels) =
                          ("error" \in DOMAIN result /\ invoked.kind = "return")

C10_Witness ==
    /\ pc = "done"
    /\ "Program terminated." \notin Labels
    /\ "error" \in DOMAIN result
    /\ result["raw_response"] = Bound(ListOutput(<<>>))
    /\ "Raw Response: " \in Labels

\* the block one call of save_to_txt is to append: the header line, the
\* timestamp line, a blank line, the data, and a blank line after it
Block(c) ==
    <<"-", "-", "-", " ", "R", "e", "s", "e", "a", "r", "c", "h", " ", "O",
      "u", "t", "p", "u", "t", " ", "-", "-", "-", "\n", "T", "i", "m",
      "e", "s", "t", "a", "m", "p", ":", " ">>
    \o Strftime(c.ts) \o <<"\n", "\n">> \o c.data \o <<"\n", "\n">>

Utf8(data) == \A i \in 1..Len(data) : data[i] # Surrogate

IsSave(c)    == c.func = "save_to_txt"
Succeeded(c) == IsSave(c) /\ c.ret[1] = "Data successfully saved to "
Failed(c)    == IsSave(c) /\ c.ret[1] = "Error saving to file: "

\* what the file may have held at the start
InitialContent(fn) ==
    IF fn = "research_output.txt" THEN InitialFiles ELSE { <<>> }

\* what the calls cs have added to the file fn, in call order: a save_to_txt
\* call that succeeded its block, a call that failed the part of its block
\* that got through (nothing, if partial is FALSE); an export_to_json call
\* the part of its document that got through
RECURSIVE Added(_, _, _)
Added(cs, fn, partial) ==
    IF cs = <<>> THEN <<>>
    ELSE (IF Head(cs).filename # fn THEN <<>>
          ELSE IF ~IsSave(Head(cs))
               THEN SubSeq(ExportText(Head(cs).data), 1, Head(cs).wrote)
          ELSE IF Succeeded(Head(cs)) THEN Block(Head(cs))
          ELSE IF partial THEN SubSeq(Block(Head(cs)), 1, Head(cs).wrote)
          ELSE <<>>)
         \o Added(Tail(cs), fn, partial)

SavedRecords ==
    SelectSeq(log, LAMBDA r : r = Rec("worker", "INFO", "Data saved to"))
SaveErrorRecords ==
    SelectSeq(log, LAMBDA r : r = Rec("worker", "ERROR", "Error saving to file"))
SucceededCalls == SelectSeq(calls, Succeeded)
FailedCalls    == SelectSeq(calls, Failed)

\* C3 (as claimed): for ANY data string, a call on a writable path (no I/O
\* fault) appends exactly one block and returns a success string.
C3_AnyStringIsSaved ==
    /\ \A i \in 1..Len(calls) :
          (IsSave(calls[i]) /\ calls[i].fault = "none") => Succeeded(calls[i])
    /\ \A fn \in Filenames :
          \E f0 \in InitialContent(fn) : files[fn] = f0 \o Added(calls, fn, TRUE)

\* C3 (amended): for any data string the utf-8 codec can encode, a call whose
\* file I/O succeeds appends exactly one block, leaves what was in the file
\* unchanged in front of it and returns a success string naming the file; the
\* file is what it was at the start followed by the blocks of the successful
\* calls in call order (and by what a failed write or another writer of the
\* file let through).
C3_EncodableStringIsSaved ==
    /\ \A i \in 1..Len(calls) : IsSave(calls[i]) =>
          /\ (calls[i].fault = "none" /\ Utf8(calls[i].data)) => Succeeded(calls[i])
          /\ Succeeded(calls[i]) => (calls[i].fault = "none" /\ Utf8(calls[i].data))
          /\ Succeeded(calls[i]) => calls[i].ret[2] = calls[i].filename
          /\ Succeeded(calls[i]) \/ Failed(calls[i])
          /\ ~Utf8(calls[i].data) => (Failed(calls[i]) /\ calls[i].wrote = 0)
    /\ \A fn \in Filenames :
          \E f0 \in InitialContent(fn) : files[fn] = f0 \o Added(calls, fn, TRUE)
    /\ (\A i \in 1..Len(calls) : calls[i].wrote = 0 \/ Succeeded(calls[i]))
          => \A fn \in Filenames :
                \E f0 \in InitialContent(fn) :
                    files[fn] = f0 \o Added(SucceededCalls, fn, FALSE)
    /\ Len(SavedRecords) = Len(SucceededCalls)

C3_Witness ==
    /\ Len(calls) = 2
    /\ Succeeded(calls[1]) /\ Succeeded(calls[2])
    /\ calls[1].filename = calls[2].filename
    /\ calls[1].data # calls[2].data
    /\ files[calls[1].filename] # Added(calls, calls[1].filename, TRUE)

\* the save_to_txt call of the agent run that has written the file and has
\* not yet logged and returned, and the calls begun so far in call order
InProgress == IF "call" \in DOMAIN pending THEN <<pending.call>> ELSE <<>>
Started    == calls \o InProgress

\* what a save_to_txt call lets through to the file
Through(c) ==
    IF Succeeded(c) THEN Block(c) ELSE SubSeq(Block(c), 1, c.wrote)

\* C4 (as claimed): when the file I/O of save_to_txt fails, the call returns a
\* string starting with 'Error saving to file', logs the failure and leaves
\* the file as it was: no part of the block is in it.
C4_FailureLeavesFileUnchanged ==
    /\ \A i \in 1..Len(Started) :
          Started[i].fault # "none" => Failed(Started[i])
    /\ \E f0 \in InitialFiles :
          files["research_output.txt"]
              = f0 \o Added(Started, "research_output.txt", FALSE)

\* C4 (amended): when the file I/O of save_to_txt fails, the call does not
\* raise: it returns a string starting with 'Error saving to file' and logs
\* the failure when it returns, after the file was closed; what was in the
\* file before the call stays unchanged and in front of whatever the call
\* added; when open() or the encoding fails nothing is added, when the write
\* fails part-way a proper prefix of the block may have been added; the agent
\* run goes on with the next iteration (it is not ended by the tool).
C4_FailureIsReported ==
    /\ [](\A i \in 1..Len(Started) :
            (Started[i].fault # "none" \/ ~Utf8(Started[i].data)) =>
                /\ Failed(Started[i])
                /\ Started[i].wrote < Len(Block(Started[i]))
                /\ (Started[i].fault = "open" \/ ~Utf8(Started[i].data))
                      => Started[i].wrote = 0)
    /\ [][files' # files =>
            /\ InProgress = <<>>
            /\ "call" \in DOMAIN pending'
            /\ files'["research_output.txt"]
                  = files["research_output.txt"] \o Through(pending'.call)
            /\ files'["research_output.json"] = files["research_output.json"]
            /\ log' = log]_vars
    /\ [][InProgress # <<>> =>
            /\ files' = files
            /\ calls' # calls =>
                  /\ calls' = Started
                  /\ wpc' = "LLM_REASONS"
                  /\ iterations' = iterations + 1
                  /\ Failed(pending.call) =>
                        log' = Append(log, Rec("worker", "ERROR",
                                               "Error saving to file"))
                  /\ Succeeded(pending.call) =>
                        log' = Append(log, Rec("worker", "INFO",
                                               "Data saved to"))]_vars
    /\ [](Len(SaveErrorRecords) = Len(FailedCalls))
    /\ [](invoked.kind = "raise"
            => invoked.exc \in {"model API error", "backend error"})

\* a failed save in front of a file that was not empty: the earlier block is
\* still the whole file, the run went on and its answer was parsed
C4_Witness ==
    /\ calls # <<>>
    /\ calls[1].fault = "open"
    /\ files["research_output.txt"] = EarlierBlock
    /\ pc = "done"
    /\ DOMAIN result = Fields

WorkerTransitions ==
    { <<"NOT_STARTED", "START">>, <<"START", "LLM_REASONS">>,
      <<"LLM_REASONS", "CALL_TOOL">>, <<"CALL_TOOL", "LLM_REASONS">>,
      <<"LLM_REASONS", "FINAL_ANSWER">>, <<"LLM_REASONS", "ITERATION_LIMIT_REACHED">>,
      <<"LLM_REASONS", "RAISED">>, <<"CALL_TOOL", "RAISED">> }

\* C5: an agent run follows START -> (LLM reasons) -> {CALL_TOOL -> LLM
\* reasons}* and never performs more than 5 iterations, model calls or tool
\* calls; if every model call and tool call comes back the run terminates,
\* in FINAL_ANSWER or ITERATION_LIMIT_REACHED unless one of the calls raised.
C5_RunTerminates ==
    /\ [](iterations <= 5 /\ reasoned <= 5)
    /\ [][(wpc = "CALL_TOOL" /\ wpc' = "LLM_REASONS")
             => iterations' = iterations + 1]_vars
    /\ [][wpc' # wpc => <<wpc, wpc'>> \in WorkerTransitions]_vars
    /\ [](wpc = "RAISED" => invoked.kind = "raise")
    /\ (wpc = "START") ~>
          (wpc \in {"FINAL_ANSWER", "ITERATION_LIMIT_REACHED", "RAISED"})

C5_Witness ==
    /\ wpc = "ITERATION_LIMIT_REACHED"
    /\ iterations = 5
    /\ calls # <<>>
    /\ reasoned = 5

\* the JSON object in the first text segment of what invoke returned
Parsed == Extract(invoked.output).text.obj

HasObject ==
    /\ Returned
    /\ invoked.kind = "return"
    /\ Extract(invoked.output).ok
    /\ Extract(invoked.output).text.json

SchemaType(f) == IF f \in {"sources", "tools_used"} THEN "list" ELSE "str"

\* C6 (as claimed): an output that carries all five fields (with values of
\* the schema's types) gives a mapping with exactly those keys and values,
\* and an output in which any one of the five fields is absent gives no
\* success mapping.
C6_AllFiveRequired ==
    HasObject =>
        /\ (Fields \subseteq DOMAIN Parsed
               /\ \A f \in Fields : Parsed[f].t = SchemaType(f))
              => result = [f \in Fields |-> Parsed[f]]
        /\ ~(Fields \subseteq DOMAIN Parsed) => "error" \in DOMAIN result

\* C6 (amended): an output that carries all five fields with values of the
\* schema's types gives a mapping with exactly those five keys and values;
\* an output in which topic, summary, sources or tools_used is absent gives
\* no success mapping; an absent timestamp does not fail the parse, the
\* mapping then holds the other four values and the time of the parse.
C6_FourRequired ==
    HasObject =>
        LET typed == \A f \in Fields \cap DOMAIN Parsed : Parsed[f].t = SchemaType(f)
            four  == {"topic", "summary", "sources", "tools_used"}
        IN  /\ (Fields \subseteq DOMAIN Parsed /\ typed)
                  => result = [f \in Fields |-> Parsed[f]]
            /\ ~(four \subseteq DOMAIN Parsed) => "error" \in DOMAIN result
            /\ (four \subseteq DOMAIN Parsed /\ "timestamp" \notin DOMAIN Parsed /\ typed)
                  => /\ DOMAIN result = Fields
                     /\ \A f \in four : result[f] = Parsed[f]
                     /\ \E now \in Timestamps : result["timestamp"] = Str(IsoFormat(now))
            /\ ~typed => "error" \in DOMAIN result

C6_Witness ==
    /\ HasObject
    /\ pc = "done"
    /\ DOMAIN Parsed = {"topic", "summary", "sources", "tools_used"}
    /\ result["timestamp"] = Str(IsoFormat("T2"))

WorkerRunning == wpc \in {"START", "LLM_REASONS", "CALL_TOOL"}

\* C9 (as claimed): between the start and the completion of
\* agent_executor.invoke the main coroutine takes no step: it neither parses,
\* logs nor prints; parsing and printing of the result happen only after the
\* invocation has completed, so writes of the main context and of the worker
\* thread never overlap.
C9_MainWaitsForWorker ==
    /\ [](pc \in {"parse", "print"} => ~WorkerRunning)
    /\ [][WorkerRunning =>
            /\ printed' = printed
            /\ result' = result
            /\ raw_response' = raw_response
            /\ SelectSeq(log', LAMBDA r : r[1] = "main") = MainRecords]_vars

====
